---- MODULE Spec2Model ----
(***************************************************************************)
(* Offline-first cache and sync queue of the fitness application:          *)
(* StorageService (services/storageService.ts), the application shell      *)
(* (App.tsx) that consumes it, and the WeightTracker component.            *)
(*                                                                         *)
(* JavaScript runs one task at a time: a piece of code runs to completion  *)
(* until it awaits a remote call.  Every action below is one such          *)
(* run-to-completion piece: a whole handler, or the part of an async       *)
(* function between two remote calls.                                      *)
(***************************************************************************)
EXTENDS Integers, Sequences, FiniteSets, TLC

\* ------------------------------------------------------------------ bounds
MaxItems == 2        \* queue items ever enqueued in one behaviour
MaxDrains == 2       \* syncPendingData invocations that can be in flight at once
MaxDrainCalls == 3   \* syncPendingData invocations in one behaviour
MaxOps == 3          \* UI handler invocations in one behaviour
MaxNow == 3          \* how far the clock advances, in hours
MaxSubs == 3         \* setupConnectivityListener calls in one behaviour
MaxBackupRuns == 6   \* times a backup timer fires in one behaviour, after the first

\* ------------------------------------------------------- program constants
PREFIX == "fitness_app_"
SYNC_QUEUE_KEY == "sync_queue"
MaxRetry == 3
\* expiryHours * 60 * 60 * 1000: the cache's times are in milliseconds.
HourMs == 60 * 60 * 1000
\* enableAutoBackup's default interval, and the backups cleanupOldBackups keeps.
BackupInterval == 5 * 60 * 1000
KeepBackups == 5
\* Date.now() when the service is constructed.  The real clock reads 13 digits
\* from 2001 to 2286; this scaled-down one keeps its 10 digits over any run here.
ClockStart == 1000000000

\* JavaScript's undefined, for a field of a payload that is not there.
Undef == "undefined"
Truthy(v) == v # Undef /\ v # ""

Uid == "u1"
NoUser == "null"

\* A key is the sequence of the strings it is concatenated from, and a stored key
\* is PREFIX + key, so that the prefix stays recognisable.
FullKey(key) == <<PREFIX>> \o key
SyncQueueKey == <<SYNC_QUEUE_KEY>>
ProfileKey(userId) == <<"user_profile_", userId>>
SessionsKey(userId) == <<"sessions_", userId>>
StatsKey(userId) == <<"stats_", userId>>
\* The users with data on the device: Uid, who uses the shell, and one more.
BackupUsers == {Uid, "u2"}
Keys == {FullKey(SyncQueueKey)} \cup
        UNION {{FullKey(ProfileKey(u)), FullKey(SessionsKey(u)), FullKey(StatsKey(u))} :
                 u \in BackupUsers}

\* `backup_${userId}_${Date.now()}`, for the users and the times of a run here.
\* User ids are Firebase uids: letters and digits, so that no user's key prefix
\* `backup_${userId}_` is the beginning of another user's.
BackupStamps == {ClockStart + k * BackupInterval : k \in 0..MaxBackupRuns}
BackupKey(userId, stamp) == <<"backup_", userId, "_", stamp>>
BackupKeys == {FullKey(BackupKey(u, t)) : u \in BackupUsers, t \in BackupStamps}
\* key.startsWith(PREFIX + `backup_${userId}_`)
IsBackupOf(fullKey, userId) ==
  /\ Len(fullKey) = 5
  /\ fullKey[1] = PREFIX
  /\ fullKey[2] = "backup_"
  /\ fullKey[3] = userId
  /\ fullKey[4] = "_"

\* localStorage belongs to the origin: other code keeps its own keys in it.
ForeignKeys == {<<"theme">>}
\* key.startsWith(PREFIX)
StartsWithPrefix(fullKey) == fullKey[1] = PREFIX

\* An optional value: <<>> is null/undefined, <<v>> is v.
Null == <<>>
Some(v) == <<v>>

\* ----------------------------------------------------------- local storage
VARIABLES
  isStorageAvailable, \* StorageService.isStorageAvailable
  storage,            \* [ls: window.localStorage, mem: StorageService.inMemoryStorage]
  now,                \* Date.now()
  lastGet,            \* the last direct get, clear or backup: its key, what it returned,
                      \* whether it removed something
  navOnline,          \* navigator.onLine
  isOnline,           \* the shell's isOnline state
  subscribed,         \* setupConnectivityListener calls made: listener pairs on window
  released,           \* how many of these subscribers are done (their cleanup has run)
  fired,              \* the callbacks the last connectivity event ran, or Null
  authUser,           \* the shell's authUser state (a uid, or NoUser)
  user,               \* the shell's user state: the profile the UI shows, or Null
  sessions,           \* the shell's sessions state: the session list the UI shows
  stats,              \* the shell's stats state, or Null
  weather,            \* whether the shell's weather state holds a value
  lastNotice,         \* the in-app notification the last handler showed, or "none"
  remote,             \* the remote data service's documents
  direct,             \* per remote operation: the calls the UI's handlers made
  opCount,            \* how many UI handlers have run
  nextId,             \* the next SyncQueue item id (ids are unique)
  enqueued,           \* per item id: the item as it was enqueued, or Null
  drains,             \* the invocations of syncPendingData, by slot
  drainCalls,         \* how many times syncPendingData was invoked
  calls,              \* per item id: remote write calls made for it by syncPendingData
  failures,           \* per item id: the times the loop's catch block ran for it
  applied             \* per item id: remote write calls for it that succeeded

storeVars == <<isStorageAvailable, storage, now, lastGet>>
netVars == <<navOnline, isOnline, subscribed, released, fired>>
appVars == <<authUser, user, sessions, stats, weather, lastNotice, direct, opCount>>
syncVars == <<nextId, enqueued, drains, drainCalls, calls, failures, applied>>
vars == <<isStorageAvailable, storage, now, lastGet, navOnline, isOnline, subscribed, released,
          fired, authUser, user, sessions,
          stats, weather, lastNotice, remote, direct, opCount, nextId, enqueued, drains, drainCalls,
          calls, failures, applied>>

\* CachedData {data, timestamp, expiry?}; expiryHours is optional (Null or Some(h)).
CachedData(value, expiryHours) ==
  [data |-> value,
   timestamp |-> now,
   expiry |-> IF expiryHours # Null /\ expiryHours[1] # 0
              THEN Some(now + expiryHours[1] * HourMs) ELSE Null]

\* set(key, value, expiryHours): the store after the call.
set(S, key, value, expiryHours) ==
  IF isStorageAvailable
  THEN [S EXCEPT !.ls[FullKey(key)] = Some(CachedData(value, expiryHours))]
  ELSE [S EXCEPT !.mem[FullKey(key)] = Some(CachedData(value, expiryHours))]

\* set(key, value, expiryHours) when localStorage.setItem throws (quota, access
\* denied): the catch block stores the entry in inMemoryStorage and set returns
\* true all the same.
setFallback(S, key, value, expiryHours) ==
  [S EXCEPT !.mem[FullKey(key)] = Some(CachedData(value, expiryHours))]

\* A localStorage string that was not written by set: JSON.parse throws on it.
RawString(text) == [raw |-> text]
Parses(entry) == "data" \in DOMAIN entry

\* The store that get, remove and clear work on.
StoreInUse(S) == IF isStorageAvailable THEN S.ls ELSE S.mem

\* The entry get(key) reads, if any.
lookup(S, key) == IF isStorageAvailable THEN S.ls[FullKey(key)] ELSE S.mem[FullKey(key)]

\* (NeverExpired: no expiry check at all.)
NeverExpired(entry) == FALSE
Expired(entry) == entry.expiry # Null /\ now > entry.expiry[1]

\* remove(key): the store after the call.
remove(S, key) ==
  IF isStorageAvailable
  THEN [S EXCEPT !.ls[FullKey(key)] = Null]
  ELSE [S EXCEPT !.mem[FullKey(key)] = Null]

\* clear(): every key with the prefix goes, from the store in use.
\* (clearAll: localStorage.clear(), which empties the whole store.)
clearAll(S) ==
  IF isStorageAvailable
  THEN [S EXCEPT !.ls = [k \in DOMAIN S.ls |-> Null]]
  ELSE [S EXCEPT !.mem = [k \in DOMAIN S.mem |-> Null]]
clear(S) ==
  IF isStorageAvailable
  THEN [S EXCEPT !.ls = [k \in DOMAIN S.ls |-> IF StartsWithPrefix(k) THEN Null ELSE @[k]]]
  ELSE [S EXCEPT !.mem = [k \in DOMAIN S.mem |-> IF StartsWithPrefix(k) THEN Null ELSE @[k]]]

\* get(key): the value returned (Null for null; the catch block returns null when
\* JSON.parse throws) ...
get(S, key) ==
  LET e == lookup(S, key) IN
  IF e = Null THEN Null
  ELSE IF ~Parses(e[1]) THEN Null
  ELSE IF Expired(e[1]) THEN Null
  ELSE Some(e[1].data)

\* ... and the store after the call (an expired entry is removed).
getEvicts(S, key) ==
  LET e == lookup(S, key) IN
  IF e # Null /\ Parses(e[1]) /\ Expired(e[1]) THEN remove(S, key) ELSE S

\* A stored value is an array or another object (Array.isArray tells them apart).
\* (JsArrayLike: an object with the items of a list that is no array.)
JsArrayLike(seq) == [type |-> "object", items |-> seq]
JsArray(seq) == [type |-> "array", items |-> seq]
JsObject(x) == [type |-> "object", items |-> <<x>>]
\* (IsAnyValue: no Array.isArray test.)
IsAnyValue(v) == TRUE
IsArray(v) == v.type = "array"

\* -------------------------------------------------------------- sync queue
Actions == {"create", "update", "delete"}
Weights == {"w70", "w72"}
\* A session list (its sessions are not told apart) and the UserStats computed
\* from one.
SessionList(n) == [k \in 1..n |-> "session"]
StatsOf(n) == [totalSessions |-> n]

\* A UserProfile: its weight, and name standing for its other fields.
Profile(name, weight) == [name |-> name, weight |-> weight]
Profiles == {Profile("p1", "w70"), Profile("p2", "w70")}

\* The payloads the callers build: {userId, profile}, an ActivitySession, and
\* {userId, weight, notes}.  Only the fields executeSyncItem reads are kept; profile
\* is optional (Null when the payload has none).
\* (BarePayload: a payload that names the user only.)
BarePayload(userId, profile) == [userId |-> userId, profile |-> <<>>, weight |-> Undef]
ProfilePayload(userId, profile) ==
  [userId |-> userId, profile |-> <<profile>>, weight |-> Undef]
SessionPayload(userId) == [userId |-> userId, profile |-> <<>>, weight |-> Undef]
WeightPayload(userId, weight) == [userId |-> userId, profile |-> <<>>, weight |-> weight]

\* interface SyncQueue
QueueItem(id, action, collection, data) ==
  [id |-> id, action |-> action, collection |-> collection, data |-> data,
   timestamp |-> now, retryCount |-> 0]

\* getSyncQueue(): the array held under SYNC_QUEUE_KEY, or [] when there is none.
getSyncQueue(S) ==
  LET queue == get(S, SyncQueueKey) IN
  IF queue # Null /\ IsArray(queue[1]) THEN queue[1].items ELSE <<>>

\* In memory mode get() hands out the stored array itself, not a copy: whoever
\* holds it sees later pushes, until set() stores another array under the key.
SharesStoredArray(S) ==
  /\ ~isStorageAvailable
  /\ LET queue == get(S, SyncQueueKey) IN queue # Null /\ IsArray(queue[1])

\* executeSyncItem: the remote write it awaits for the item, "none" when its
\* switch falls through without a call, "throw" for an unsupported collection.
executeSyncItem(item) ==
  CASE item.collection = "users" ->
         IF item.action = "update" /\ Truthy(item.data.userId) /\ item.data.profile # Null
         THEN "saveUserProfile" ELSE "none"
    [] item.collection = "sessions" ->
         IF item.action = "create" /\ Truthy(item.data.userId)
         THEN "addActivitySession" ELSE "none"
    [] item.collection = "weights" ->
         IF item.action = "create" /\ Truthy(item.data.userId) /\ Truthy(item.data.weight)
         THEN "addWeightEntry" ELSE "none"
    [] OTHER -> "throw"

\* (addToSyncQueueUnshift: the variant that puts the new item at the head.)
addToSyncQueueUnshift(S, id, action, collection, data) ==
  IF ~Truthy(action) \/ ~Truthy(collection)
  THEN S
  ELSE LET syncQueue == getSyncQueue(S)
           queueItem == QueueItem(id, action, collection, data)
       IN set(getEvicts(S, SyncQueueKey), SyncQueueKey,
              JsArray(<<queueItem>> \o syncQueue), Null)

\* addToSyncQueue(action, collection, data), data being an object (truthy):
\* the store after the call.  In memory mode the push lands in the stored array
\* itself, which set() then stores again.
addToSyncQueue(S, id, action, collection, data) ==
  IF ~Truthy(action) \/ ~Truthy(collection)
  THEN S
  ELSE LET syncQueue == getSyncQueue(S)
           queueItem == QueueItem(id, action, collection, data)
       IN set(getEvicts(S, SyncQueueKey), SyncQueueKey,
              JsArray(Append(syncQueue, queueItem)), Null)

\* ------------------------------------------------------- syncPendingData
Slots == 1..MaxDrains
ItemIds == 1..MaxItems

\* One invocation of syncPendingData.  pc: "idle" (not running, or returned),
\* "await" (suspended in executeSyncItem's remote call for the item at idx).
\* live: its syncQueue is the array the store still holds (memory mode); otherwise
\* its syncQueue is snap, an array of its own.  The remaining fields record the
\* pass for the properties: the queue it read (taken), the items it has handled
\* with each one's outcome (visited), the item whose call is pending as it was
\* when the call was made (cur), the ids of its pending remote calls (inflight),
\* the value it returned (result) and the queue it left (after).
IdleDrain ==
  [pc |-> "idle", live |-> FALSE, snap |-> <<>>, idx |-> 0, remaining |-> <<>>,
   syncedCount |-> 0, taken |-> <<>>, visited |-> <<>>, cur |-> <<>>,
   inflight |-> {}, bumped |-> {}, returned |-> FALSE, result |-> 0, after |-> <<>>,
   wasOnline |-> TRUE]

\* The loop body's success branch: syncedCount++.
Succeeded(st, seen) ==
  [st EXCEPT !.idx = @ + 1, !.syncedCount = @ + 1, !.cur = <<>>,
             !.inflight = @ \ {seen.id},
             !.visited = Append(@, [item |-> seen, ok |-> TRUE])]

\* The retry ceiling: an item whose retryCount, once incremented, is below it stays.
\* (KeepsAlways: no ceiling.)
KeepsAlways(retryCount) == TRUE
KeepsAfterFailure(retryCount) == retryCount < MaxRetry

\* The loop body's catch branch: item.retryCount++, kept while below the ceiling.
Failed(st, item, seen) ==
  LET retried == [item EXCEPT !.retryCount = @ + 1] IN
  [st EXCEPT !.idx = @ + 1, !.cur = <<>>, !.inflight = @ \ {seen.id},
             !.remaining = IF KeepsAfterFailure(retried.retryCount)
                           THEN Append(@, retried) ELSE @,
             !.bumped = @ \cup {item.id},
             !.visited = Append(@, [item |-> seen, ok |-> FALSE])]

\* The loop awaits executeSyncItem: it goes on to the next item only when the
\* remote call of this one has returned.  (FiresAndForgets: a loop without the
\* await, which starts every call at once.)
FiresAndForgets == FALSE
AwaitsExecuteSyncItem == TRUE

\* The for-of loop from st.idx on, over the array arr, up to its next remote
\* call (pc "await") or its end (pc "finish").
RECURSIVE RunLoop(_, _)
RunLoop(st, arr) ==
  IF st.idx > Len(arr) THEN [st EXCEPT !.pc = "finish"]
  ELSE LET item == arr[st.idx]
           op == executeSyncItem(item)
           called == [st EXCEPT !.cur = <<item>>, !.inflight = @ \cup {item.id}]
       IN IF op = "throw" THEN RunLoop(Failed(st, item, item), arr)
          ELSE IF op = "none" THEN RunLoop(Succeeded(st, item), arr)
          ELSE IF AwaitsExecuteSyncItem THEN [called EXCEPT !.pc = "await"]
          ELSE RunLoop([called EXCEPT !.idx = @ + 1, !.syncedCount = @ + 1], arr)

\* item.retryCount++ on the items with these ids, wherever the array holds them.
Bump(seq, ids) ==
  [k \in DOMAIN seq |->
     IF seq[k].id \in ids THEN [seq[k] EXCEPT !.retryCount = @ + 1] ELSE seq[k]]

\* The sync queue's stored entry with its items' retryCount incremented in place
\* (memory mode: the items of the stored array are the objects the loop mutates).
BumpStored(S, ids) ==
  IF ~isStorageAvailable /\ SharesStoredArray(S)
  THEN [S EXCEPT !.mem[FullKey(SyncQueueKey)][1].data.items = Bump(@, ids)]
  ELSE S

\* The array slot d iterates over.
ArrOf(d) == IF drains[d].live THEN getSyncQueue(storage) ELSE drains[d].snap

\* What a slot keeps once its invocation has returned: the record of the pass.
Returned(st, count, queueAfter) ==
  [IdleDrain EXCEPT !.returned = TRUE, !.result = count, !.after = queueAfter,
                    !.taken = st.taken, !.visited = st.visited,
                    !.inflight = st.inflight, !.wasOnline = st.wasOnline]

\* The state after slot d has run up to st (RunLoop's result) from the store S.
\* Memory mode: the items the run incremented are the very objects every other
\* holder of the array sees.  At the loop's end set(SYNC_QUEUE_KEY, remainingQueue)
\* stores a new array, so the invocations still iterating the old one keep it.
Settle(d, st, S) ==
  LET ids == IF isStorageAvailable THEN {} ELSE st.bumped
      S1 == BumpStored(S, ids)
      aliased(e) == [drains[e] EXCEPT !.snap = Bump(@, ids), !.remaining = Bump(@, ids)]
  IN /\ failures' = [i \in ItemIds |-> IF i \in st.bumped THEN failures[i] + 1
                                        ELSE failures[i]]
     /\ IF st.pc = "finish"
        THEN /\ storage' = set(S1, SyncQueueKey, JsArray(st.remaining), Null)
             /\ drains' = [e \in Slots |->
                             IF e = d THEN Returned(st, st.syncedCount, st.remaining)
                             ELSE IF drains[e].live
                             THEN [aliased(e) EXCEPT !.live = FALSE, !.snap = getSyncQueue(S1)]
                             ELSE aliased(e)]
             /\ calls' = calls
        ELSE /\ storage' = S1
             /\ drains' = [e \in Slots |->
                             IF e = d THEN [st EXCEPT !.bumped = {}, !.snap = Bump(@, ids)]
                             ELSE aliased(e)]
             /\ calls' = [calls EXCEPT ![st.cur[1].id] = @ + 1]

FreeSlots == {d \in Slots : drains[d].pc = "idle"}

\* syncPendingData(firestoreService), from its call to its first remote call
\* (or to its return, when it makes none); online is what isOnline() returns.
SyncStart(d, online) ==
  /\ drainCalls < MaxDrainCalls
  /\ FreeSlots # {}
  /\ d = CHOOSE f \in FreeSlots : \A g \in FreeSlots : f <= g
  /\ drainCalls' = drainCalls + 1
  /\ IF ~online
     THEN /\ drains' = [drains EXCEPT ![d] =
                          [Returned(IdleDrain, 0, getSyncQueue(storage))
                             EXCEPT !.wasOnline = FALSE]]
          /\ UNCHANGED <<storage, calls, failures>>
     ELSE LET syncQueue == getSyncQueue(storage)
              S0 == getEvicts(storage, SyncQueueKey)
              st0 == [IdleDrain EXCEPT !.live = SharesStoredArray(storage),
                                       !.snap = IF SharesStoredArray(storage)
                                                THEN <<>> ELSE syncQueue,
                                       !.idx = 1, !.taken = syncQueue]
          IN IF Len(syncQueue) = 0
             THEN /\ drains' = [drains EXCEPT ![d] = Returned(st0, 0, syncQueue)]
                  /\ storage' = S0
                  /\ calls' = calls
                  /\ failures' = failures
             ELSE Settle(d, RunLoop(st0, syncQueue), S0)

\* ---------------------------------------------------------- remote service
RemoteOps == {"saveUserProfile", "updateUserWeight", "addActivitySession", "addWeightEntry"}

\* FirestoreService's writes, on the documents of user Uid: the users document
\* (profile), the weights written (weights) and the number of sessions added.
RemoteWrite(R, op, data) ==
  CASE op = "saveUserProfile" -> [R EXCEPT !.profile = data.profile]
    [] op = "updateUserWeight" -> [R EXCEPT !.profile[1].weight = data.weight]
    [] op = "addActivitySession" -> [R EXCEPT !.sessions = @ + 1]
    [] op = "addWeightEntry" -> [R EXCEPT !.weights = Append(@, data.weight)]

\* updateDoc rejects when the document does not exist; any call may fail.
CanSucceed(R, op) == op = "updateUserWeight" => R.profile # Null

\* StorageService.isOnline(), in a browser.  (AssumesOnline: its value where
\* there is no navigator.)
AssumesOnline == TRUE
StorageIsOnline == navOnline

\* A direct call of the exported storageService.syncPendingData.
CallSyncPendingData ==
  /\ \E d \in Slots : SyncStart(d, StorageIsOnline)
  /\ UNCHANGED <<isStorageAvailable, now, lastGet, netVars, appVars, remote,
                 nextId, enqueued, applied>>

\* The remote call slot d awaits resolves (ok) or rejects, and syncPendingData
\* runs on to its next remote call or to its return.
RemoteReturns(d, ok) ==
  /\ drains[d].pc = "await"
  /\ LET arr == ArrOf(d)
         item == arr[drains[d].idx]
         seen == drains[d].cur[1]
         st1 == IF ok THEN Succeeded(drains[d], seen) ELSE Failed(drains[d], item, seen)
     IN /\ applied' = IF ok THEN [applied EXCEPT ![item.id] = @ + 1] ELSE applied
        /\ remote' = IF ok THEN RemoteWrite(remote, executeSyncItem(seen), seen.data)
                     ELSE remote
        /\ Settle(d, RunLoop(st1, arr), storage)
  /\ UNCHANGED <<isStorageAvailable, now, lastGet, netVars, appVars, nextId, enqueued, drainCalls>>

\* The inputs of a direct addToSyncQueue call: what the shell enqueues
\* (App.tsx 359, 442, 509), the one weights item executeSyncItem can apply, and
\* an item of a collection executeSyncItem does not know.
EnqueueInputs ==
  { [action |-> "update", collection |-> "users",
     data |-> ProfilePayload(Uid, Profile("p1", "w70"))],
    [action |-> "create", collection |-> "users",
     data |-> ProfilePayload(Uid, Profile("p1", "w70"))],
    [action |-> "create", collection |-> "sessions", data |-> SessionPayload(Uid)],
    [action |-> "create", collection |-> "weights", data |-> WeightPayload(Uid, "w70")],
    [action |-> "update", collection |-> "stats", data |-> SessionPayload(Uid)] }

\* addToSyncQueue as an action: the new id is used up when an item was made.
Enqueue(S, action, collection, data) ==
  /\ storage' = addToSyncQueue(S, nextId, action, collection, data)
  /\ nextId' = IF Truthy(action) /\ Truthy(collection) THEN nextId + 1 ELSE nextId
  /\ enqueued' = IF Truthy(action) /\ Truthy(collection)
                 THEN [enqueued EXCEPT ![nextId] =
                         <<QueueItem(nextId, action, collection, data)>>]
                 ELSE enqueued

\* A direct call of the exported storageService.addToSyncQueue.
CallAddToSyncQueue(in) ==
  /\ nextId <= MaxItems
  /\ Enqueue(storage, in.action, in.collection, in.data)
  /\ UNCHANGED <<isStorageAvailable, now, lastGet, netVars, appVars, remote, drains, drainCalls,
                 calls, failures, applied>>

\* ------------------------------------------------------ application shell
\* cacheUserProfile(userId, profile): the store after the call.
\* (cacheNothing: a call that leaves the store as it is.)
cacheNothing(S, userId, profile) == S
cacheUserProfile(S, userId, profile) ==
  IF ~Truthy(userId) \/ userId = NoUser THEN S
  ELSE set(S, ProfileKey(userId), JsObject(profile), Some(48))

\* getCachedUserProfile(userId): the cached profile, or Null.
getCachedUserProfile(S, userId) ==
  LET v == get(S, ProfileKey(userId)) IN IF v = Null THEN Null ELSE v[1].items

\* The connectivity listener is registered once, by the mount effect, and its
\* closure keeps the authUser of the first render: useState's initial null.
ListenerAuthUser == NoUser

\* setupConnectivityListener(callback) adds an online and an offline listener to
\* window and returns nothing: no listener is ever removed.  An event runs the
\* callback of every subscription made, those of the subscribers that are done
\* included.  Callbacks: the calls an event makes, by kind of subscriber.
Callbacks(arg) ==
  [arg |-> arg, toLive |-> subscribed - released, toReleased |-> released]

\* A further call of setupConnectivityListener.
Subscribe ==
  /\ subscribed < MaxSubs
  /\ subscribed' = subscribed + 1
  /\ UNCHANGED <<storeVars, navOnline, isOnline, released, fired, appVars, remote, syncVars>>

\* A subscriber is done with its subscription (the mount effect's cleanup runs):
\* it was handed no function to call, and its listeners stay on window.
Release ==
  /\ released < subscribed
  /\ released' = released + 1
  /\ UNCHANGED <<storeVars, navOnline, isOnline, subscribed, fired, appVars, remote, syncVars>>

\* The browser's online event: navigator.onLine is true and the listener runs
\* callback(true): setIsOnline(true), and syncPendingData if it sees a user.
GoOnline ==
  /\ ~navOnline
  /\ navOnline' = TRUE
  /\ isOnline' = TRUE
  /\ fired' = Some(Callbacks(TRUE))
  /\ UNCHANGED <<subscribed, released>>
  /\ IF ListenerAuthUser # NoUser /\ drainCalls < MaxDrainCalls /\ FreeSlots # {}
     THEN /\ \E d \in Slots : SyncStart(d, TRUE)
          /\ UNCHANGED <<isStorageAvailable, now, lastGet, appVars, remote, nextId, enqueued, applied>>
     ELSE UNCHANGED <<storeVars, appVars, remote, syncVars>>

\* The browser's offline event: callback(false).
GoOffline ==
  /\ navOnline
  /\ navOnline' = FALSE
  /\ isOnline' = FALSE
  /\ fired' = Some(Callbacks(FALSE))
  /\ UNCHANGED <<subscribed, released>>
  /\ UNCHANGED <<storeVars, appVars, remote, syncVars>>

Called(op) == [direct EXCEPT ![op] = @ + 1]

\* handleRegister({user, profileData}); ok: whether the remote save succeeds.
\* The register screen is rendered only while there is no authUser.  Past the
\* save, the weather is set to what the lookup returns or, when that fails, to a
\* default.
HandleRegister(profile, ok) ==
  /\ opCount < MaxOps
  /\ authUser = NoUser
  /\ isOnline \/ nextId <= MaxItems
  /\ opCount' = opCount + 1
  /\ authUser' = Uid
  /\ user' = <<profile>>
  /\ IF isOnline
     THEN /\ direct' = Called("saveUserProfile")
          /\ IF ok /\ CanSucceed(remote, "saveUserProfile")
             THEN /\ remote' = RemoteWrite(remote, "saveUserProfile",
                                           ProfilePayload(Uid, profile))
                  /\ storage' = cacheUserProfile(storage, Uid, profile)
                  /\ stats' = <<StatsOf(0)>>
                  /\ weather' = TRUE
                  /\ lastNotice' = "success"
             ELSE /\ UNCHANGED <<remote, storage, stats, weather>>
                  /\ lastNotice' = "error"
          /\ UNCHANGED <<nextId, enqueued>>
     ELSE /\ Enqueue(cacheUserProfile(storage, Uid, profile), "create", "users",
                     ProfilePayload(Uid, profile))
          /\ stats' = <<StatsOf(0)>>
          /\ weather' = TRUE
          /\ lastNotice' = "success"
          /\ UNCHANGED <<direct, remote>>
  /\ UNCHANGED <<isStorageAvailable, now, lastGet, netVars, sessions, drains, drainCalls, calls,
                 failures, applied>>

\* handleUserUpdate(updatedUser); ok: whether the remote save succeeds.
\* (The weather reload on a city change is left out.)
HandleUserUpdate(profile, ok) ==
  /\ opCount < MaxOps
  /\ isOnline \/ nextId <= MaxItems
  /\ opCount' = opCount + 1
  /\ IF authUser = NoUser
     THEN UNCHANGED <<user, storage, direct, remote, nextId, enqueued, lastNotice>>
     ELSE /\ user' = <<profile>>
          /\ IF isOnline
             THEN /\ storage' = cacheUserProfile(storage, authUser, profile)
                  /\ direct' = Called("saveUserProfile")
                  /\ remote' = IF ok /\ CanSucceed(remote, "saveUserProfile")
                               THEN RemoteWrite(remote, "saveUserProfile",
                                                ProfilePayload(authUser, profile))
                               ELSE remote
                  /\ lastNotice' = IF ok /\ CanSucceed(remote, "saveUserProfile")
                                   THEN "none" ELSE "warning"
                  /\ UNCHANGED <<nextId, enqueued>>
             ELSE /\ Enqueue(cacheUserProfile(storage, authUser, profile), "update",
                             "users", ProfilePayload(authUser, profile))
                  /\ lastNotice' = "none"
                  /\ UNCHANGED <<direct, remote>>
  /\ UNCHANGED <<isStorageAvailable, now, lastGet, netVars, authUser, sessions, stats, weather,
                 drains, drainCalls, calls, failures, applied>>

\* WeightTracker.handleSubmit with a valid weight, mounted with userId =
\* authUser.uid, currentWeight = user.weight and onWeightUpdate =
\* handleWeightUpdate; ok1, ok2: whether its two remote calls succeed.
\* (handleWeightUpdate's reload of the weight history is left out.)
WeightSubmit(weight, hasNotes, ok1, ok2) ==
  /\ opCount < MaxOps
  /\ authUser # NoUser /\ user # Null
  /\ opCount' = opCount + 1
  /\ LET significantChange == weight # user[1].weight
         R1 == RemoteWrite(remote, "updateUserWeight", WeightPayload(authUser, weight))
         R2 == RemoteWrite(R1, "addWeightEntry", WeightPayload(authUser, weight))
     IN IF ~(ok1 /\ CanSucceed(remote, "updateUserWeight"))
        THEN /\ direct' = Called("updateUserWeight")
             /\ lastNotice' = "error"
             /\ UNCHANGED <<remote, user>>
        ELSE IF hasNotes \/ significantChange
        THEN /\ direct' = [Called("updateUserWeight") EXCEPT !["addWeightEntry"] = @ + 1]
             /\ lastNotice' = IF ok2 THEN "success" ELSE "error"
             /\ IF ok2
                THEN remote' = R2 /\ user' = <<[user[1] EXCEPT !.weight = weight]>>
                ELSE remote' = R1 /\ user' = user
        ELSE /\ direct' = Called("updateUserWeight")
             /\ lastNotice' = "success"
             /\ remote' = R1
             /\ user' = <<[user[1] EXCEPT !.weight = weight]>>
  /\ UNCHANGED <<storeVars, netVars, authUser, sessions, stats, weather, syncVars>>

\* cacheSessions(userId, sessions), sessions being an array; cacheStats(userId, stats).
\* (cacheNoSessions: a call that leaves the store as it is.)
cacheNoSessions(S, userId, list) == S
cacheSessions(S, userId, list) ==
  IF ~Truthy(userId) THEN S ELSE set(S, SessionsKey(userId), JsArray(list), Some(24))

cacheStats(S, userId, st) ==
  IF ~Truthy(userId) THEN S ELSE set(S, StatsKey(userId), JsObject(st), Some(12))

\* getCachedSessions(userId): Some(the cached array), or Null when there is none
\* or what is cached is no array.  getCachedStats(userId): Some(stats) or Null.
getCachedSessions(S, userId) ==
  LET v == get(S, SessionsKey(userId)) IN
  IF v # Null /\ IsArray(v[1]) THEN Some(v[1].items) ELSE Null

getCachedStats(S, userId) ==
  LET v == get(S, StatsKey(userId)) IN IF v = Null THEN Null ELSE v[1].items

\* FirestoreService's reads of user Uid's documents; ok: whether the query
\* succeeds.  Each of them catches the query's error: getUserProfile then returns
\* null and getUserSessions [].  getUserStats computes the stats from its own
\* session query; on no completed session getFavoriteActivity reduces an empty
\* array without initial value, which throws, and getUserStats returns null.
getUserProfile(R, ok) == IF ok THEN R.profile ELSE Null
getUserSessions(R, ok) == IF ok THEN SessionList(R.sessions) ELSE <<>>
getUserStats(R, ok) == IF ok /\ R.sessions > 0 THEN Some(StatsOf(R.sessions)) ELSE Null

\* The profile loadUserData makes up when it finds none.
DefaultProfile == Profile("Utilisateur", "w70")

\* loadUserData(userId) run with the store S, the remote documents R and the UI
\* state cur = [user, sessions, stats]; online is the isOnline of the render whose
\* closure runs; okP, okS, okT: whether the profile, sessions and stats reads
\* succeed; okSave: whether the save of a made-up profile succeeds.  The result:
\* the store, the remote documents and the UI state after it, the saveUserProfile
\* calls it made (saved) and whether it threw.  (The weather is left out.)
loadUserData(S, R, cur, userId, online, okP, okS, okT, okSave) ==
  LET S0 == getEvicts(getEvicts(getEvicts(S, ProfileKey(userId)), SessionsKey(userId)),
                      StatsKey(userId))
      freshProfile == getUserProfile(R, okP)
      freshStats == getUserStats(R, okT)
      userData == IF online /\ freshProfile # Null THEN freshProfile
                  ELSE getCachedUserProfile(S, userId)
      userSessions == IF online THEN Some(getUserSessions(R, okS))
                      ELSE getCachedSessions(S, userId)
      userStats == IF online /\ freshStats # Null THEN freshStats
                   ELSE getCachedStats(S, userId)
      S1 == IF online /\ userData # Null THEN cacheUserProfile(S0, userId, userData[1])
            ELSE S0
      S2 == IF online /\ userSessions # Null THEN cacheSessions(S1, userId, userSessions[1])
            ELSE S1
      S3 == IF online /\ userStats # Null THEN cacheStats(S2, userId, userStats[1]) ELSE S2
      shown == [user |-> IF userData # Null THEN userData ELSE Some(DefaultProfile),
                sessions |-> IF userSessions # Null THEN userSessions[1] ELSE <<>>,
                stats |-> userStats]
  IN IF userData # Null
     THEN [storage |-> S3, remote |-> R, ui |-> shown, saved |-> 0, threw |-> FALSE]
     ELSE IF online /\ ~(okSave /\ CanSucceed(R, "saveUserProfile"))
     THEN \* the catch block: what is cached is shown, and the error is thrown on
          [storage |-> S3, remote |-> R,
           ui |-> [user |-> cur.user,
                   sessions |-> IF getCachedSessions(S3, userId) # Null
                                THEN getCachedSessions(S3, userId)[1] ELSE cur.sessions,
                   stats |-> IF getCachedStats(S3, userId) # Null
                             THEN getCachedStats(S3, userId) ELSE cur.stats],
           saved |-> 1, threw |-> TRUE]
     ELSE [storage |-> cacheUserProfile(S3, userId, DefaultProfile),
           remote |-> IF online
                      THEN RemoteWrite(R, "saveUserProfile",
                                       ProfilePayload(userId, DefaultProfile))
                      ELSE R,
           ui |-> shown, saved |-> IF online THEN 1 ELSE 0, threw |-> FALSE]

\* handleLogin(user): setAuthUser, loadUserData, and the welcome notification
\* unless loadUserData threw.  The login screen is rendered only while there is
\* no authUser.  loadUserData sets the weather when it gets that far online and
\* the lookup succeeds (okW); nothing is cached for it at a login, the cache
\* having been emptied by the logout before.
HandleLogin(okP, okS, okT, okSave) ==
  /\ opCount < MaxOps
  /\ authUser = NoUser
  /\ opCount' = opCount + 1
  /\ authUser' = Uid
  /\ LET L == loadUserData(storage, remote, [user |-> user, sessions |-> sessions,
                                             stats |-> stats],
                           Uid, isOnline, okP, okS, okT, okSave)
     IN /\ storage' = L.storage
        /\ remote' = L.remote
        /\ user' = L.ui.user
        /\ sessions' = L.ui.sessions
        /\ stats' = L.ui.stats
        /\ direct' = [direct EXCEPT !["saveUserProfile"] = @ + L.saved]
        /\ lastNotice' = IF L.threw THEN "none" ELSE "success"
        /\ \E okW \in BOOLEAN : weather' = (isOnline /\ ~L.threw /\ okW)
  /\ UNCHANGED <<isStorageAvailable, now, lastGet, netVars, syncVars>>

\* handleActivityComplete(plan, ...) with a user and the weather loaded; okAdd:
\* whether the remote addActivitySession succeeds; the others are loadUserData's.
HandleActivityComplete(okAdd, okP, okS, okT, okSave) ==
  /\ opCount < MaxOps
  /\ authUser # NoUser
  /\ weather
  /\ isOnline \/ nextId <= MaxItems
  /\ opCount' = opCount + 1
  /\ LET added == <<"session">> \o sessions
         S1 == IF isOnline THEN storage
               ELSE addToSyncQueue(storage, nextId, "create", "sessions",
                                   SessionPayload(authUser))
         R1 == IF isOnline /\ okAdd
               THEN RemoteWrite(remote, "addActivitySession", SessionPayload(authUser))
               ELSE remote
         L == loadUserData(S1, R1, [user |-> user, sessions |-> added, stats |-> stats],
                           authUser, isOnline, okP, okS, okT, okSave)
     IN /\ nextId' = IF isOnline THEN nextId ELSE nextId + 1
        /\ enqueued' = IF isOnline THEN enqueued
                       ELSE [enqueued EXCEPT ![nextId] =
                               <<QueueItem(nextId, "create", "sessions",
                                           SessionPayload(authUser))>>]
        /\ IF isOnline /\ ~okAdd
           THEN /\ sessions' = added
                /\ direct' = Called("addActivitySession")
                /\ lastNotice' = "warning"
                /\ UNCHANGED <<storage, remote, user, stats>>
           ELSE /\ storage' = L.storage
                /\ remote' = L.remote
                /\ user' = L.ui.user
                /\ sessions' = L.ui.sessions
                /\ stats' = L.ui.stats
                /\ direct' = [direct EXCEPT
                                !["addActivitySession"] = IF isOnline THEN @ + 1 ELSE @,
                                !["saveUserProfile"] = @ + L.saved]
                /\ lastNotice' = IF L.threw THEN "warning" ELSE "success"
  /\ UNCHANGED <<isStorageAvailable, now, lastGet, netVars, authUser, weather, drains,
                 drainCalls, calls, failures, applied>>

\* handleLogout(); ok: whether authService.signOut() succeeds.  On success the UI
\* state is reset and storageService.clear() empties the cache; a failed signOut
\* is only logged.
HandleLogout(ok) ==
  /\ opCount < MaxOps
  /\ authUser # NoUser
  /\ opCount' = opCount + 1
  /\ IF ok
     THEN /\ authUser' = NoUser
          /\ user' = Null
          /\ sessions' = <<>>
          /\ stats' = Null
          /\ weather' = FALSE
          /\ storage' = clear(storage)
          /\ lastNotice' = "info"
     ELSE UNCHANGED <<authUser, user, sessions, stats, weather, storage, lastNotice>>
  /\ UNCHANGED <<isStorageAvailable, now, lastGet, netVars, direct, remote, syncVars>>

\* String(n): the decimal digits of a number; and the order Array.prototype.sort
\* puts strings in (here: strings of digits).
RECURSIVE Digits(_)
Digits(n) == IF n < 10 THEN <<n>> ELSE Append(Digits(n \div 10), n % 10)

RECURSIVE StringLess(_, _)
StringLess(s, t) ==
  IF s = <<>> THEN t # <<>>
  ELSE IF t = <<>> THEN FALSE
  ELSE IF s[1] # t[1] THEN s[1] < t[1]
  ELSE StringLess(Tail(s), Tail(t))

\* cleanupOldBackups(userId): the user's backup keys, sorted as strings and
\* reversed, lose all but their first KeepBackups.  The keys share everything up
\* to the time, so their order is the string order of the times.
\* (cleanupNothing: no cleanup.)
cleanupNothing(S, userId) == S
cleanupOldBackups(S, userId) ==
  LET keys(st) == {k \in DOMAIN st : st[k] # Null /\ IsBackupOf(k, userId)}
      after(st, k) == {j \in keys(st) : StringLess(Digits(k[5]), Digits(j[5]))}
      cleaned(st) == [k \in DOMAIN st |->
                        IF k \in keys(st) /\ Cardinality(after(st, k)) >= KeepBackups
                        THEN Null ELSE st[k]]
  IN IF ~Truthy(userId) THEN S
     ELSE IF isStorageAvailable THEN [S EXCEPT !.ls = cleaned(@)]
     ELSE [S EXCEPT !.mem = cleaned(@)]

\* createAutoBackup(userId): the store after it.  The backup holds what is cached
\* for the user, and is kept for 7 days.
createAutoBackup(S, userId) ==
  IF ~Truthy(userId) THEN S
  ELSE LET S0 == getEvicts(getEvicts(getEvicts(S, ProfileKey(userId)),
                                     SessionsKey(userId)), StatsKey(userId))
           backup == [userId |-> userId,
                      profile |-> getCachedUserProfile(S, userId),
                      sessions |-> getCachedSessions(S, userId),
                      stats |-> getCachedStats(S, userId),
                      timestamp |-> now, version |-> "1.0"]
       IN cleanupOldBackups(set(S0, BackupKey(userId, now), JsObject(backup), Some(7 * 24)),
                            userId)

\* The backup timer that enableAutoBackup(userId) set fires: createAutoBackup
\* runs, and the time passes until a timer fires next.
CreateAutoBackup(userId) ==
  /\ now <= ClockStart + MaxBackupRuns * BackupInterval
  /\ storage' = createAutoBackup(storage, userId)
  /\ now' = now + BackupInterval
  /\ lastGet' = [key |-> BackupKey(userId, now), value |-> Null,
                 evicted |-> \E k \in BackupKeys :
                                /\ StoreInUse(storage)[k] # Null
                                /\ StoreInUse(storage')[k] = Null]
  /\ UNCHANGED <<isStorageAvailable, netVars, appVars, remote, syncVars>>

\* The constructor's checkStorageAvailability decides the mode once; the shell
\* has mounted with no user.
Init ==
  /\ isStorageAvailable \in BOOLEAN
  /\ storage = [ls |-> [k \in Keys \cup BackupKeys \cup ForeignKeys |-> Null],
                mem |-> [k \in Keys \cup BackupKeys |-> Null]]
  /\ now = ClockStart
  /\ lastGet = [key |-> <<>>, value |-> Null, evicted |-> FALSE]
  /\ navOnline \in BOOLEAN
  /\ isOnline = navOnline
  /\ subscribed = 1
  /\ released = 0
  /\ fired = Null
  /\ authUser = NoUser
  /\ user = Null
  /\ sessions = <<>>
  /\ stats = Null
  /\ weather = FALSE
  /\ lastNotice = "none"
  /\ remote = [profile |-> Null, weights |-> <<>>, sessions |-> 0]
  /\ direct = [op \in RemoteOps |-> 0]
  /\ opCount = 0
  /\ nextId = 1
  /\ enqueued = [i \in ItemIds |-> Null]
  /\ drains = [d \in Slots |-> IdleDrain]
  /\ drainCalls = 0
  /\ calls = [i \in ItemIds |-> 0]
  /\ failures = [i \in ItemIds |-> 0]
  /\ applied = [i \in ItemIds |-> 0]

\* The storage service under any interleaving of calls of its exported operations.
Next ==
  \/ GoOnline
  \/ GoOffline
  \/ \E in \in EnqueueInputs : CallAddToSyncQueue(in)
  \/ CallSyncPendingData
  \/ \E d \in Slots, ok \in BOOLEAN : RemoteReturns(d, ok)

Spec == Init /\ [][Next]_vars

\* The application: the shell's handlers drive the storage service.
NextApp ==
  \/ GoOnline
  \/ GoOffline
  \/ \E p \in Profiles, ok \in BOOLEAN : HandleRegister(p, ok)
  \/ \E p \in Profiles, ok \in BOOLEAN : HandleUserUpdate(p, ok)
  \/ \E w \in Weights, hasNotes, ok1, ok2 \in BOOLEAN : WeightSubmit(w, hasNotes, ok1, ok2)
  \/ CallSyncPendingData
  \/ \E d \in Slots, ok \in BOOLEAN : RemoteReturns(d, ok)

SpecApp == Init /\ [][NextApp]_vars

\* The whole shell: every handler that writes or loads the user's data.  Its one
\* call of syncPendingData is the connectivity listener's, in GoOnline.
NextShell ==
  \/ GoOnline
  \/ GoOffline
  \/ \E p \in Profiles, ok \in BOOLEAN : HandleRegister(p, ok)
  \/ \E okP, okS, okT, okSave \in BOOLEAN : HandleLogin(okP, okS, okT, okSave)
  \/ \E p \in Profiles, ok \in BOOLEAN : HandleUserUpdate(p, ok)
  \/ \E w \in Weights, hasNotes, ok1, ok2 \in BOOLEAN : WeightSubmit(w, hasNotes, ok1, ok2)
  \/ \E okAdd, okP, okS, okT, okSave \in BOOLEAN :
        HandleActivityComplete(okAdd, okP, okS, okT, okSave)
  \/ \E ok \in BOOLEAN : HandleLogout(ok)

SpecShell == Init /\ [][NextShell]_vars

\* The connectivity monitor: subscriptions, and the browser's events.
NextMonitor ==
  \/ GoOnline
  \/ GoOffline
  \/ Subscribe
  \/ Release

SpecMonitor == Init /\ [][NextMonitor]_vars

\* The cache by itself: direct calls of set, get, remove and clear while the clock
\* advances.  throws: localStorage.setItem rejects the write (localStorage mode
\* only: Map.set does not throw).
StoreKeys == {ProfileKey(Uid)}
StoreValues == {JsObject(Profile("p1", "w70")), JsObject(Profile("p2", "w70"))}
Expiries == {Null, Some(0), Some(1), Some(2)}

\* An hour passes.
Tick ==
  /\ now < ClockStart + MaxNow * HourMs
  /\ now' = now + HourMs
  /\ UNCHANGED <<isStorageAvailable, storage, lastGet, netVars, appVars, remote, syncVars>>

CallSet(key, value, expiryHours, throws) ==
  /\ throws => isStorageAvailable
  /\ storage' = IF throws THEN setFallback(storage, key, value, expiryHours)
                ELSE set(storage, key, value, expiryHours)
  /\ UNCHANGED <<isStorageAvailable, now, lastGet, netVars, appVars, remote, syncVars>>

CallGet(key) ==
  /\ lastGet' = [key |-> key, value |-> get(storage, key),
                 evicted |-> getEvicts(storage, key) # storage]
  /\ storage' = getEvicts(storage, key)
  /\ UNCHANGED <<isStorageAvailable, now, netVars, appVars, remote, syncVars>>

CallRemove(key) ==
  /\ storage' = remove(storage, key)
  /\ UNCHANGED <<isStorageAvailable, now, lastGet, netVars, appVars, remote, syncVars>>

CallClear ==
  /\ storage' = clear(storage)
  /\ lastGet' = [key |-> <<"clear()">>, value |-> Null, evicted |-> storage' # storage]
  /\ UNCHANGED <<isStorageAvailable, now, netVars, appVars, remote, syncVars>>

NextStore ==
  \/ Tick
  \/ \E k \in StoreKeys, v \in StoreValues, e \in Expiries, throws \in BOOLEAN :
        CallSet(k, v, e, throws)
  \/ \E k \in StoreKeys : CallGet(k)
  \/ \E k \in StoreKeys : CallRemove(k)
  \/ CallClear

SpecStore == Init /\ [][NextStore]_vars

\* The automatic backups of two users, next to a cached profile.
NextBackup ==
  \/ \E u \in BackupUsers : CreateAutoBackup(u)
  \/ CallSet(ProfileKey(Uid), JsObject(Profile("p1", "w70")), Null, FALSE)

SpecBackup == Init /\ [][NextBackup]_vars

\* The cache in a localStorage it shares: other code of the origin writes its own
\* keys, and a string under one of the service's keys may be one that set did not
\* write.  getSyncQueue is called directly as well.
SharedKeys == {ProfileKey(Uid), SyncQueueKey}
SharedValues == {JsObject(Profile("p1", "w70")), JsArray(<<>>)}

ExternalSetItem(fullKey, text) ==
  /\ isStorageAvailable
  /\ storage' = [storage EXCEPT !.ls[fullKey] = Some(RawString(text))]
  /\ UNCHANGED <<isStorageAvailable, now, lastGet, netVars, appVars, remote, syncVars>>

CallGetSyncQueue ==
  /\ lastGet' = [key |-> SyncQueueKey, value |-> Some(JsArray(getSyncQueue(storage))),
                 evicted |-> getEvicts(storage, SyncQueueKey) # storage]
  /\ storage' = getEvicts(storage, SyncQueueKey)
  /\ UNCHANGED <<isStorageAvailable, now, netVars, appVars, remote, syncVars>>

NextShared ==
  \/ \E k \in SharedKeys, v \in SharedValues, throws \in BOOLEAN : CallSet(k, v, Null, throws)
  \/ \E k \in ForeignKeys : ExternalSetItem(k, "dark")
  \/ \E k \in SharedKeys : ExternalSetItem(FullKey(k), "not json")
  \/ \E k \in SharedKeys : CallGet(k)
  \/ CallGetSyncQueue
  \/ \E k \in SharedKeys : CallRemove(k)
  \/ CallClear

SpecShared == Init /\ [][NextShared]_vars

\* The storage service called by one caller that awaits each syncPendingData
\* before its next call: no two passes overlap, and nothing is enqueued meanwhile.
NoPassInFlight == \A d \in Slots : drains[d].pc = "idle"

NextSeq ==
  \/ GoOnline
  \/ GoOffline
  \/ NoPassInFlight /\ \E in \in EnqueueInputs : CallAddToSyncQueue(in)
  \/ NoPassInFlight /\ CallSyncPendingData
  \/ \E d \in Slots, ok \in BOOLEAN : RemoteReturns(d, ok)

SpecSeq == Init /\ [][NextSeq]_vars

\* ================================================================ claims
StoredQueue == getSyncQueue(storage)
Ids(seq) == [k \in DOMAIN seq |-> seq[k].id]
InQueue(id) == \E k \in DOMAIN StoredQueue : StoredQueue[k].id = id
Awaiting(d) == drains[d].pc = "await"

\* C1: two overlapping invocations of syncPendingData never interleave on the
\* queue (the second waits or does nothing), so no queued item is applied to the
\* remote service twice.
C1_NoItemAppliedTwice == \A i \in ItemIds : applied[i] <= 1

\* C2: an item leaves the queue during a pass only because the remote write
\* selected by its (collection, action) was made for it and succeeded, or because
\* its retryCount reached 3; this for every pair the shell enqueues,
\* ('users', 'create') included.
C2_RemovedOnlyAfterRemoteWrite ==
  \A d \in Slots : \A k \in DOMAIN drains[d].visited :
     LET v == drains[d].visited[k] IN
     IF v.ok THEN applied[v.item.id] >= 1
     ELSE v.item.retryCount + 1 >= MaxRetry
          \/ v.item.id \in {drains[d].remaining[j].id : j \in DOMAIN drains[d].remaining}
          \/ v.item.id \in {drains[d].after[j].id : j \in DOMAIN drains[d].after}

\* What a pass must leave and return, from the items it handled and the outcome
\* of each one's apply.  An item's apply succeeded when the remote write selected
\* for it was made and resolved.
Survivors(visited) ==
  LET Kept(v) == ~v.ok /\ v.item.retryCount + 1 < 3
      kept == SelectSeq(visited, Kept)
  IN [k \in DOMAIN kept |-> [kept[k].item EXCEPT !.retryCount = @ + 1]]
Applies(item) == executeSyncItem(item) \in RemoteOps
AppliedCount(visited) ==
  LET Ok(v) == v.ok /\ Applies(v.item) IN Len(SelectSeq(visited, Ok))
OkCount(visited) ==
  LET Ok(v) == v.ok IN Len(SelectSeq(visited, Ok))
OnlinePass(d) == drains[d].returned /\ drains[d].wasOnline

\* C3: an online pass returns the number of items whose remote apply succeeded,
\* and the queue it leaves is exactly the items whose apply failed and whose
\* retryCount, incremented by 1, is below 3, in their original order.
C3_PassResult ==
  \A d \in Slots : OnlinePass(d) =>
     /\ drains[d].result = AppliedCount(drains[d].visited)
     /\ drains[d].after = Survivors(drains[d].visited)

\* The same with "executeSyncItem returned without throwing" for "the remote
\* apply succeeded": what the loop computes when no two passes overlap.
PassResultOfLoop ==
  \A d \in Slots : OnlinePass(d) =>
     /\ drains[d].result = OkCount(drains[d].visited)
     /\ drains[d].after = Survivors(drains[d].visited)

\* C4: bounded retry.  Against a remote service that fails every call, an
\* enqueued item stays in the queue until the third pass over it and is dropped by
\* that one, the remote service having been invoked for it exactly 3 times: between
\* passes, the item is queued exactly while fewer than 3 calls were made for it.
C4_BoundedRetry ==
  \A i \in ItemIds :
     (enqueued[i] # Null /\ applied[i] = 0 /\ NoPassInFlight) =>
        /\ calls[i] <= 3
        /\ InQueue(i) <=> calls[i] < 3

\* The same for the items whose (collection, action) selects a remote write.
BoundedRetryOfAppliedItems ==
  \A i \in ItemIds :
     (enqueued[i] # Null /\ Applies(enqueued[i][1]) /\ applied[i] = 0 /\ NoPassInFlight) =>
        /\ calls[i] <= 3
        /\ InQueue(i) <=> calls[i] < 3
        /\ \A k \in DOMAIN StoredQueue :
              StoredQueue[k].id = i => StoredQueue[k].retryCount = calls[i]

\* C5: reconciliation idempotence.  With a remote service that succeeds, a pass
\* applies every item of the queue once and leaves the queue empty, and a pass
\* over an empty queue returns 0, makes no remote call and leaves it empty.
C5_DrainTwice ==
  \A d \in Slots : OnlinePass(d) =>
     /\ (\A k \in DOMAIN drains[d].visited : drains[d].visited[k].ok) =>
           /\ drains[d].after = <<>>
           /\ \A k \in DOMAIN drains[d].taken : applied[drains[d].taken[k].id] = 1
     /\ drains[d].taken = <<>> =>
           /\ drains[d].result = 0
           /\ drains[d].visited = <<>>
           /\ drains[d].after = <<>>

\* The same, "applied" being read as "handled without an error".
DrainTwiceOfLoop ==
  \A d \in Slots : OnlinePass(d) =>
     /\ (\A k \in DOMAIN drains[d].visited : drains[d].visited[k].ok) =>
           /\ drains[d].after = <<>>
           /\ drains[d].result = Len(drains[d].taken)
           /\ \A k \in DOMAIN drains[d].taken :
                 Applies(drains[d].taken[k]) => applied[drains[d].taken[k].id] = 1
     /\ drains[d].taken = <<>> =>
           /\ drains[d].result = 0
           /\ drains[d].visited = <<>>
           /\ drains[d].after = <<>>

\* C6: a syncPendingData call made while offline returns 0 at once: it makes no
\* remote call and leaves the persisted queue, every retryCount included, as it
\* was.
C6_OfflineDrain ==
  [][(drainCalls' = drainCalls + 1 /\ ~navOnline) =>
        /\ storage' = storage
        /\ calls' = calls
        /\ remote' = remote
        /\ \E d \in Slots :
              /\ drains[d].pc = "idle"
              /\ drains'[d].pc = "idle"
              /\ drains'[d].returned
              /\ drains'[d].result = 0
              /\ drains'[d].inflight = {}
              /\ \A e \in Slots \ {d} : drains'[e] = drains[e]]_vars

C6_Witness ==
  /\ ~navOnline
  /\ \E d \in Slots : drains[d].returned /\ ~drains[d].wasOnline
  /\ \E k \in DOMAIN StoredQueue : StoredQueue[k].retryCount > 0

C8_OneAtATimeInOrder ==
  \A d \in Slots :
     LET seen == [k \in DOMAIN drains[d].visited |-> drains[d].visited[k].item.id] IN
     /\ Cardinality(drains[d].inflight) <= 1
     /\ ~Awaiting(d) => drains[d].inflight = {}
     /\ \A j, k \in DOMAIN seen : j < k => seen[j] < seen[k]
     /\ Awaiting(d) =>
           /\ drains[d].idx \in DOMAIN ArrOf(d)
           /\ drains[d].inflight = {ArrOf(d)[drains[d].idx].id}
           /\ seen = Ids(SubSeq(ArrOf(d), 1, drains[d].idx - 1))
           /\ \A k \in DOMAIN seen : seen[k] < ArrOf(d)[drains[d].idx].id

C8_Witness ==
  \E d \in Slots :
     /\ Awaiting(d)
     /\ drains[d].idx = 2
     /\ Applies(drains[d].visited[1].item)
     /\ calls[drains[d].visited[1].item.id] >= 1

\* A SyncQueue item as it was enqueued, whatever its retryCount has become.
WellFormedItem(it) ==
  /\ it.id \in ItemIds
  /\ enqueued[it.id] # Null
  /\ it.retryCount \in Nat
  /\ it = [enqueued[it.id][1] EXCEPT !.retryCount = it.retryCount]

\* C9: what is persisted under the sync queue key is at every moment either
\* nothing or a whole list of well-formed items (each write stores the full list).
C9_QueueIsWholeList ==
  LET e == lookup(storage, SyncQueueKey) IN
  e # Null =>
     /\ IsArray(e[1].data)
     /\ \A k \in DOMAIN e[1].data.items : WellFormedItem(e[1].data.items[k])
     /\ \A j, k \in DOMAIN e[1].data.items :
           j # k => e[1].data.items[j].id # e[1].data.items[k].id

C9_Witness ==
  /\ Len(StoredQueue) = 2
  /\ \E d \in Slots : OnlinePass(d) /\ Len(drains[d].after) >= 1
  /\ \E d \in Slots : Awaiting(d)

\* C10: once a profile was saved online and connectivity has dropped, a weight
\* update updates the cached profile, adds exactly one item to the queue and makes
\* no remote call (the queue is drained when connectivity comes back).
C10_OfflineWeightUpdateIsQueued ==
  [][\A w \in Weights, hasNotes, ok1, ok2 \in BOOLEAN :
        (WeightSubmit(w, hasNotes, ok1, ok2) /\ ~navOnline /\ remote.profile # Null) =>
           /\ direct' = direct
           /\ remote' = remote
           /\ Len(getSyncQueue(storage')) = Len(getSyncQueue(storage)) + 1
           /\ getCachedUserProfile(storage', authUser) # Null
           /\ getCachedUserProfile(storage', authUser)[1].weight = w]_vars

\* C11: whenever connectivity goes from offline to online while a user is
\* authenticated (a user who logged in after the shell mounted included), the
\* shell calls syncPendingData in response.
C11_OnlineTransitionDrains ==
  [][(~navOnline /\ navOnline' /\ authUser # NoUser) => drainCalls' = drainCalls + 1]_vars

QueueGrowsByOne ==
  LET before == getSyncQueue(storage)
      after == getSyncQueue(storage')
  IN Len(after) = Len(before) + 1 /\ SubSeq(after, 1, Len(before)) = before

\* What a write must do while offline: enqueue, and call no remote write.
OfflineWriteIsQueued == ~isOnline => (direct' = direct /\ QueueGrowsByOne)

\* C14: every write of the shell (profile update, registration, completed
\* session, weight update) puts the new value in the cache whatever the
\* connectivity and the outcome of the remote write, and while offline enqueues
\* the mutation without calling a remote write.
C14_EveryWriteIsCached ==
  [][/\ \A p \in Profiles, ok \in BOOLEAN :
           (HandleUserUpdate(p, ok) /\ authUser # NoUser) =>
              /\ getCachedUserProfile(storage', authUser) = <<p>>
              /\ OfflineWriteIsQueued
     /\ \A p \in Profiles, ok \in BOOLEAN :
           HandleRegister(p, ok) =>
              /\ getCachedUserProfile(storage', Uid) = <<p>>
              /\ OfflineWriteIsQueued
     /\ \A okAdd, okP, okS, okT, okSave \in BOOLEAN :
           HandleActivityComplete(okAdd, okP, okS, okT, okSave) =>
              /\ getCachedSessions(storage', authUser) # Null
              /\ Len(getCachedSessions(storage', authUser)[1]) >= 1
              /\ OfflineWriteIsQueued
     /\ \A w \in Weights, hasNotes, ok1, ok2 \in BOOLEAN :
           WeightSubmit(w, hasNotes, ok1, ok2) =>
              /\ getCachedUserProfile(storage', authUser) # Null
              /\ getCachedUserProfile(storage', authUser)[1].weight = w
              /\ OfflineWriteIsQueued]_vars

\* C15: in no state does the UI show, for the profile, the sessions or the stats,
\* a value that differs from the cached value of that resource.
C15_UiAgreesWithCache ==
  authUser # NoUser =>
     /\ user # Null => getCachedUserProfile(storage, authUser) = user
     /\ sessions # <<>> => getCachedSessions(storage, authUser) = Some(sessions)
     /\ stats # Null => getCachedStats(storage, authUser) = stats

\* A run of loadUserData(userId) online, by the step being taken: for each
\* resource whose remote read failed while a value was cached, that value is still
\* cached and is the one shown; and with the profile cached the run does not throw
\* (its caller goes on to its success notification).
KeepsCachedOnFailedRead(userId, okP, okS, okT) ==
  /\ (~okP /\ getCachedUserProfile(storage, userId) # Null) =>
        /\ getCachedUserProfile(storage', userId) = getCachedUserProfile(storage, userId)
        /\ user' = getCachedUserProfile(storage, userId)
  /\ (~okS /\ getCachedSessions(storage, userId) # Null) =>
        /\ getCachedSessions(storage', userId) = getCachedSessions(storage, userId)
        /\ sessions' = getCachedSessions(storage, userId)[1]
  /\ (~okT /\ getCachedStats(storage, userId) # Null) =>
        /\ getCachedStats(storage', userId) = getCachedStats(storage, userId)
        /\ stats' = getCachedStats(storage, userId)
  /\ (~okP /\ getCachedUserProfile(storage, userId) # Null) => lastNotice' = "success"

\* C16: when loadUserData runs online and the remote read of a resource fails
\* while a value is cached for it, the cached value stays in the cache and is
\* shown, and no error reaches the caller.
C16_FailedReadKeepsCache ==
  [][/\ \A okP, okS, okT, okSave \in BOOLEAN :
           (HandleLogin(okP, okS, okT, okSave) /\ isOnline) =>
              KeepsCachedOnFailedRead(Uid, okP, okS, okT)
     /\ \A okP, okS, okT, okSave \in BOOLEAN :
           (HandleActivityComplete(TRUE, okP, okS, okT, okSave) /\ isOnline) =>
              KeepsCachedOnFailedRead(authUser, okP, okS, okT)]_vars

\* A run of loadUserData(userId) online, by the step being taken: for each
\* resource whose remote read succeeded with a value, that value is cached and
\* shown after it.
ShowsAndCachesFresh(userId, okP, okS, okT) ==
  /\ (okP /\ remote'.profile # Null /\ remote.profile # Null) =>
        /\ getCachedUserProfile(storage', userId) = remote.profile
        /\ user' = remote.profile
  /\ okS =>
        /\ getCachedSessions(storage', userId) = Some(SessionList(remote'.sessions))
        /\ sessions' = SessionList(remote'.sessions)
  /\ (okT /\ remote'.sessions > 0) =>
        /\ getCachedStats(storage', userId) = Some(StatsOf(remote'.sessions))
        /\ stats' = Some(StatsOf(remote'.sessions))

C18_FailedSaveIsQueued ==
  [][\A p \in Profiles :
        (HandleUserUpdate(p, FALSE) /\ isOnline /\ authUser # NoUser) =>
           LET after == getSyncQueue(storage') IN
           /\ lastNotice' = "warning"
           /\ QueueGrowsByOne
           /\ after[Len(after)].action = "update"
           /\ after[Len(after)].collection = "users"
           /\ after[Len(after)].data.profile = <<p>>]_vars

\* C19: get(key) never returns the data of an entry whose expiry is earlier than
\* the current time: it returns null and removes the entry from the store; and
\* an entry without expiry is returned by get at any later time, as long as it is
\* in the store.
C19_ExpiredNeverReturned ==
  [][\A k \in StoreKeys :
        CallGet(k) =>
           LET e == lookup(storage, k) IN
           /\ (e # Null /\ e[1].expiry # Null /\ e[1].expiry[1] < now) =>
                 /\ lastGet'.value = Null
                 /\ lookup(storage', k) = Null
           /\ lastGet'.value # Null =>
                 /\ e # Null
                 /\ lastGet'.value = Some(e[1].data)
                 /\ e[1].expiry # Null => now <= e[1].expiry[1]
           /\ (e # Null /\ e[1].expiry = Null) =>
                 /\ lastGet'.value = Some(e[1].data)
                 /\ storage' = storage]_vars

C19_Witness ==
  /\ lastGet.evicted
  /\ lastGet.value = Null
  /\ lastGet.key \in StoreKeys
  /\ lookup(storage, lastGet.key) = Null
  /\ now > ClockStart

\* C20: whenever set(key, value) returns success, a get(key) that follows (before
\* expiry, nothing else done to the key) returns value, and a remove(key) that
\* follows makes get(key) null; also when localStorage rejected the write and set
\* fell back to the in-memory map.
C20_GetAfterSet ==
  [][\A k \in StoreKeys, v \in StoreValues, e \in Expiries, throws \in BOOLEAN :
        CallSet(k, v, e, throws) =>
           /\ get(storage', k) = Some(v)
           /\ get(remove(storage', k), k) = Null]_vars

\* C21: clear() removes every entry whose key carries the prefix and leaves every
\* other entry of the same store as it was.
C21_ClearRemovesOnlyPrefixed ==
  [][CallClear =>
        \A k \in DOMAIN StoreInUse(storage) :
           IF StartsWithPrefix(k)
           THEN StoreInUse(storage')[k] = Null
           ELSE StoreInUse(storage')[k] = StoreInUse(storage)[k]]_vars

C21_Witness ==
  /\ lastGet.key = <<"clear()">>
  /\ lastGet.evicted
  /\ \E k \in ForeignKeys : storage.ls[k] = Some(RawString("dark"))
  /\ \A k \in Keys : storage.ls[k] = Null

\* The entry a set(key, ...) call has just written, in the store it wrote to.
WrittenBy(S, key, throws) == IF throws THEN S.mem[FullKey(key)] ELSE lookup(S, key)

\* C22: set(key, value, expiryHours) stores the entry with timestamp = now and, for
\* every expiryHours given (0 included), expiry = now + expiryHours in
\* milliseconds; set without expiryHours stores no expiry.
C22_SetStoresExpiry ==
  [][\A k \in StoreKeys, v \in StoreValues, e \in Expiries, throws \in BOOLEAN :
        CallSet(k, v, e, throws) =>
           LET w == WrittenBy(storage', k, throws) IN
           /\ w # Null
           /\ w[1].data = v
           /\ w[1].timestamp = now
           /\ w[1].expiry = IF e = Null THEN Null ELSE Some(now + e[1] * HourMs)]_vars

\* The same for the durations that are not 0.
SetStoresPositiveExpiry ==
  [][\A k \in StoreKeys, v \in StoreValues, e \in Expiries \ {Some(0)}, throws \in BOOLEAN :
        CallSet(k, v, e, throws) =>
           LET w == WrittenBy(storage', k, throws) IN
           /\ w # Null
           /\ w[1].data = v
           /\ w[1].timestamp = now
           /\ w[1].expiry = IF e = Null THEN Null ELSE Some(now + e[1] * HourMs)]_vars

\* C23: a malformed stored value is a cache miss: get(key) on an entry that does
\* not parse returns null (and raises nothing), and getSyncQueue on a sync-queue
\* entry that is not an array (or does not parse) returns the empty array.
C23_MalformedIsMiss ==
  [][/\ \A k \in SharedKeys :
           (CallGet(k) /\ lookup(storage, k) # Null /\ ~Parses(lookup(storage, k)[1])) =>
              /\ lastGet'.value = Null
              /\ storage' = storage
     /\ CallGetSyncQueue =>
           LET e == lookup(storage, SyncQueueKey) IN
           (e = Null \/ ~Parses(e[1]) \/ e[1].data.type # "array") =>
              lastGet'.value = Some(JsArray(<<>>))]_vars

C23_Witness ==
  /\ lastGet.key = SyncQueueKey
  /\ lastGet.value = Some(JsArray(<<>>))
  /\ lookup(storage, SyncQueueKey) # Null
  /\ Parses(lookup(storage, SyncQueueKey)[1])
  /\ lookup(storage, SyncQueueKey)[1].data.type = "object"
  /\ lookup(storage, ProfileKey(Uid)) = Some(RawString("not json"))
  /\ get(storage, ProfileKey(Uid)) = Null

\* C24: the subscribed callback is called with true on each offline-to-online
\* transition and with false on each online-to-offline transition, once per
\* transition per subscription, and once a subscriber has unsubscribed its callback
\* is never called again.
C24_CallbackPerTransition ==
  [][/\ (~navOnline /\ navOnline') =>
           fired' = Some([arg |-> TRUE, toLive |-> subscribed - released, toReleased |-> 0])
     /\ (navOnline /\ ~navOnline') =>
           fired' = Some([arg |-> FALSE, toLive |-> subscribed - released, toReleased |-> 0])]_vars

\* The same without the unsubscription: one call per transition for each
\* subscription ever made.
CallbackPerSubscriptionMade ==
  [][(navOnline' # navOnline) =>
        /\ fired' # Null
        /\ fired'[1].arg = navOnline'
        /\ fired'[1].toLive + fired'[1].toReleased = subscribed]_vars

\* Slot d's pass, the only one in flight, returns in this step.
PassFinishes(d) ==
  /\ Awaiting(d)
  /\ drains'[d].pc = "idle"
  /\ drains'[d].returned
  /\ \A e \in Slots \ {d} : ~Awaiting(e)

\* C25: an item enqueued while a pass is in flight (after the pass read the queue,
\* before it writes the remaining list back) is still in the queue when the pass
\* finishes: the write-back discards no item that the pass did not read.
C25_EnqueuedDuringPassSurvives ==
  [][\A d \in Slots :
        PassFinishes(d) =>
           \A k \in DOMAIN getSyncQueue(storage) :
              LET id == getSyncQueue(storage)[k].id IN
              (/\ \A j \in DOMAIN drains[d].taken : drains[d].taken[j].id # id
               /\ \A j \in DOMAIN drains'[d].visited : drains'[d].visited[j].item.id # id) =>
                 \E j \in DOMAIN getSyncQueue(storage') : getSyncQueue(storage')[j].id = id]_vars

\* C26: pending offline mutations survive logout: every item that is in the sync
\* queue before handleLogout (it was not applied remotely and has not failed 3
\* times) is still in the queue after it.
C26_QueueSurvivesLogout ==
  [][\A ok \in BOOLEAN :
        HandleLogout(ok) =>
           \A k \in DOMAIN getSyncQueue(storage) :
              \E j \in DOMAIN getSyncQueue(storage') :
                 getSyncQueue(storage')[j] = getSyncQueue(storage)[k]]_vars

C28_CompletedSessionIsShown ==
  [][\A okAdd, okP, okS, okT, okSave \in BOOLEAN :
        HandleActivityComplete(okAdd, okP, okS, okT, okSave) => sessions' # <<>>]_vars

\* The times of the user's backups in a store.
BackupTimes(st, userId) == {t \in BackupStamps : st[FullKey(BackupKey(userId, t))] # Null}

====
